---- MODULE Spec2Model ----
(***************************************************************************)
(* A state-machine model of the <payment-panel> web component              *)
(* (class PaymentPanel) and of the events a page can deliver to it.        *)
(*                                                                         *)
(* Units.  Pointer positions and closeThreshold are whole pixels, clock    *)
(* readings are whole milliseconds.  closeThresholdPercent and             *)
(* velocityThreshold are held in hundredths (0.3 is 30, 0.5 px/ms is 50).  *)
(* A quotient the code computes in floating point is held as the exact     *)
(* pair <<numerator, denominator>> and compared by cross multiplication.   *)
(* An absent value (null, undefined, an empty inline style) is <<>> and a  *)
(* present one is <<v>>; a null object reference is the string "null".     *)
(***************************************************************************)
EXTENDS Integers, Sequences, FiniteSets, TLC

\* ---------------------------------------------------------------- bounds
\* The clock (Date.now()) is read as 0..MaxTime.
MaxTime == 2
\* Stacked sets of drag listeners that are told apart (more behave as this many).
MaxListeners == 2

\* ------------------------------------------------------- input alphabets
\* Pointer positions (clientY) a press or move may carry.
Ys == {0, 20, 120, 150}
\* Rendered heights of the sheet (panel.offsetHeight).
PanelHeights == {400}
\* Where a press can land.  "keyboard" lies inside the content area.
Origins == {"dragHandle", "header", "panelOther", "content", "actions", "keyboard", "closeBtn"}
\* Arguments given to the numeric setters.
CloseThresholdArgs == {-50, 125}
PercentArgs == {0}
VelocityArgs == {0}

None == <<>>
Some(v) == <<v>>

Max(a, b) == IF a >= b THEN a ELSE b
Min(a, b) == IF a <= b THEN a ELSE b
Abs(a) == IF a < 0 THEN -a ELSE a

\* ------------------------------------------------------ program constants
DEFAULT_CONFIG ==
  [ allowSwipeToClose |-> TRUE,
    closeThreshold |-> 100,
    closeThresholdPercent |-> 30,
    velocityThreshold |-> 50,
    closeOnOverlayClick |-> TRUE,
    enablePassword |-> FALSE,
    passwordLength |-> 6,
    headerTitle |-> "pay" ]

DEFAULT_PAYMENT_METHODS == <<"wechat", "alipay", "card">>

DEFAULT_FIELD_MAPPING ==
  [ titleField |-> "title", subtitleField |-> "subtitle",
    iconField |-> "icon", valueField |-> "value" ]

VARIABLES
  \* fields of PaymentPanel
  isOpen, isDragging, startY, currentY, startTime, lastY, lastTime, velocity,
  allowSwipeToClose, closeThreshold, closeThresholdPercent, velocityThreshold,
  closeOnOverlayClick, enablePassword, passwordLength, currentPassword, headerTitle,
  paymentMethods, fieldMapping, selectedMethod, hasCustomPaymentMethods,
  \* the element's attributes, by name
  attrs,
  \* the rendered tree and the page
  panelShow, overlayShow, panelDragging, panelTransform, overlayOpacity,
  overlayClickBound, dragListeners, dragHandleHidden,
  passwordSectionShown, actionsShown, passwordDots,
  renderedRows, amountText, headerText, bodyOverflow,
  \* the environment
  framePending, now, panelHeight,
  \* the global wrapper: whether document.body exists, the shared instance
  \* (None or the number of the element), how many elements were created,
  \* the panel elements appended to the body, and the listeners added to the
  \* shared instance, by event type, in the order they were added
  bodyReady, globalInstance, instancesCreated, bodyChildren, listeners,
  \* what the last step did: the operation with what it was given, and the
  \* events it dispatched, in order
  lastOp, emitted,
  \* the listener calls the last step made, in order, as <<handler, type>>,
  \* and whether the last step ended by throwing
  invoked, thrown

trackVars == <<isDragging, startY, currentY, startTime, lastY, lastTime, velocity,
               panelDragging, panelTransform, overlayOpacity>>
thresholdVars == <<closeThreshold, closeThresholdPercent, velocityThreshold>>
otherConfigVars == <<allowSwipeToClose, closeOnOverlayClick, enablePassword,
                     passwordLength, headerTitle>>
methodVars == <<paymentMethods, fieldMapping, selectedMethod,
                hasCustomPaymentMethods, renderedRows>>
passwordVars == <<currentPassword, passwordDots>>
chromeVars == <<overlayClickBound, dragListeners, dragHandleHidden,
                passwordSectionShown, actionsShown, headerText>>
showVars == <<isOpen, panelShow, overlayShow, bodyOverflow, framePending>>
wrapperVars == <<bodyReady, globalInstance, instancesCreated, bodyChildren,
                 listeners>>

vars == <<trackVars, thresholdVars, otherConfigVars, methodVars, passwordVars,
          chromeVars, showVars, attrs, amountText, now, panelHeight,
          wrapperVars, lastOp, emitted, invoked, thrown>>

\* The state as one record, so that a handler is a function from state to
\* state and handlers that call one another compose.
Cur ==
  [ isOpen |-> isOpen, isDragging |-> isDragging, startY |-> startY,
    currentY |-> currentY, startTime |-> startTime, lastY |-> lastY,
    lastTime |-> lastTime, velocity |-> velocity,
    allowSwipeToClose |-> allowSwipeToClose, closeThreshold |-> closeThreshold,
    closeThresholdPercent |-> closeThresholdPercent,
    velocityThreshold |-> velocityThreshold,
    closeOnOverlayClick |-> closeOnOverlayClick, enablePassword |-> enablePassword,
    passwordLength |-> passwordLength, currentPassword |-> currentPassword,
    headerTitle |-> headerTitle, paymentMethods |-> paymentMethods,
    fieldMapping |-> fieldMapping, selectedMethod |-> selectedMethod,
    hasCustomPaymentMethods |-> hasCustomPaymentMethods, attrs |-> attrs,
    panelShow |-> panelShow, overlayShow |-> overlayShow,
    panelDragging |-> panelDragging, panelTransform |-> panelTransform,
    overlayOpacity |-> overlayOpacity, overlayClickBound |-> overlayClickBound,
    dragListeners |-> dragListeners, dragHandleHidden |-> dragHandleHidden,
    passwordSectionShown |-> passwordSectionShown, actionsShown |-> actionsShown,
    passwordDots |-> passwordDots, renderedRows |-> renderedRows,
    amountText |-> amountText, headerText |-> headerText,
    bodyOverflow |-> bodyOverflow, framePending |-> framePending,
    now |-> now, panelHeight |-> panelHeight,
    bodyReady |-> bodyReady, globalInstance |-> globalInstance,
    instancesCreated |-> instancesCreated, bodyChildren |-> bodyChildren,
    listeners |-> listeners,
    emitted |-> emitted, invoked |-> invoked, thrown |-> thrown ]

\* One step of the program: operation op took the state to s.
Step(op, s) ==
  /\ isOpen' = s.isOpen /\ isDragging' = s.isDragging /\ startY' = s.startY
  /\ currentY' = s.currentY /\ startTime' = s.startTime /\ lastY' = s.lastY
  /\ lastTime' = s.lastTime /\ velocity' = s.velocity
  /\ allowSwipeToClose' = s.allowSwipeToClose /\ closeThreshold' = s.closeThreshold
  /\ closeThresholdPercent' = s.closeThresholdPercent
  /\ velocityThreshold' = s.velocityThreshold
  /\ closeOnOverlayClick' = s.closeOnOverlayClick /\ enablePassword' = s.enablePassword
  /\ passwordLength' = s.passwordLength /\ currentPassword' = s.currentPassword
  /\ headerTitle' = s.headerTitle /\ paymentMethods' = s.paymentMethods
  /\ fieldMapping' = s.fieldMapping /\ selectedMethod' = s.selectedMethod
  /\ hasCustomPaymentMethods' = s.hasCustomPaymentMethods /\ attrs' = s.attrs
  /\ panelShow' = s.panelShow /\ overlayShow' = s.overlayShow
  /\ panelDragging' = s.panelDragging /\ panelTransform' = s.panelTransform
  /\ overlayOpacity' = s.overlayOpacity /\ overlayClickBound' = s.overlayClickBound
  /\ dragListeners' = s.dragListeners /\ dragHandleHidden' = s.dragHandleHidden
  /\ passwordSectionShown' = s.passwordSectionShown /\ actionsShown' = s.actionsShown
  /\ passwordDots' = s.passwordDots /\ renderedRows' = s.renderedRows
  /\ amountText' = s.amountText /\ headerText' = s.headerText
  /\ bodyOverflow' = s.bodyOverflow /\ framePending' = s.framePending
  /\ now' = s.now /\ panelHeight' = s.panelHeight
  /\ bodyReady' = s.bodyReady /\ globalInstance' = s.globalInstance
  /\ instancesCreated' = s.instancesCreated /\ bodyChildren' = s.bodyChildren
  /\ listeners' = s.listeners
  /\ emitted' = s.emitted /\ invoked' = s.invoked /\ thrown' = s.thrown
  /\ lastOp' = op

\* The state a handler starts from: nothing dispatched, no listener called
\* and nothing thrown yet in this step.
Begin == [Cur EXCEPT !.emitted = <<>>, !.invoked = <<>>, !.thrown = FALSE]

\* dispatchEvent(new CustomEvent(type, {detail})): every listener added to
\* the element for this type is called, in the order they were added.
Emit(s, type, detail) ==
  [s EXCEPT !.emitted = Append(@, [type |-> type, detail |-> detail]),
            !.invoked = @ \o [ i \in 1..Len(s.listeners[type]) |->
                                 <<s.listeners[type][i], type>> ]]

\* The two event types, and the functions a caller may register.
EventNames == {"payment-confirm", "payment-close"}
Handlers == {"h1", "h2"}

\* ------------------------------------------------------- method records
\* A JavaScript value of a record field: a string or a number.
JsStr(x) == <<"str", x>>
JsNum(n) == <<"num", n>>
\* String(v)
JsString(v) == IF v[1] = "str" THEN v[2] ELSE ToString(v[2])
\* v as a condition: '' and 0 are falsy.
Truthy(v) == IF v[1] = "str" THEN v[2] # "" ELSE v[2] # 0

\* The objects a method list may hold, by name, and the fields of each.  The
\* first three are the built-in records; the others are caller-supplied.
MethodRecord(m) ==
  CASE m = "wechat" -> [ value |-> JsStr("wechat"), title |-> JsStr("WeChat Pay"),
                         subtitle |-> JsStr("recommended"), icon |-> JsStr("i1") ]
    [] m = "alipay" -> [ value |-> JsStr("alipay"), title |-> JsStr("Alipay"),
                         subtitle |-> JsStr("safe"), icon |-> JsStr("i2") ]
    [] m = "card"   -> [ value |-> JsStr("card"), title |-> JsStr("Bank card"),
                         subtitle |-> JsStr("all banks"), icon |-> JsStr("i3") ]
    [] m = "m1"     -> [ id |-> JsNum(7), name |-> JsStr("X") ]
    [] m = "m2"     -> [ id |-> JsNum(0), name |-> JsStr("Y"), desc |-> JsStr("d2") ]
    [] m = "m3"     -> [ value |-> JsStr("v3"), title |-> JsStr("Z"), id |-> JsNum(3) ]

\* Lists and mappings a caller passes to setPaymentMethods (None: omitted).
MethodListArgs == { None, Some(<<>>), Some(<<"m1", "m2">>), Some(<<"m3", "alipay">>) }
FieldMappingArgs ==
  { None,
    Some([ titleField |-> "name", subtitleField |-> "desc",
           iconField |-> "icon", valueField |-> "id" ]) }

\* this.fieldMapping.<key> || dflt
MappedField(fm, key, dflt) ==
  IF key \in DOMAIN fm /\ fm[key] # "" THEN fm[key] ELSE dflt

\* getField: the mapped field, else the first fallback the record defines, else ''.
GetField(item, field, fallbacks) ==
  IF field \in DOMAIN item THEN item[field]
  ELSE LET hits == { i \in 1..Len(fallbacks) : fallbacks[i] \in DOMAIN item }
       IN  IF hits = {} THEN JsStr("")
           ELSE item[fallbacks[CHOOSE i \in hits : \A j \in hits : i <= j]]

\* String(v || dflt)
OrDefault(v, dflt) == IF Truthy(v) THEN JsString(v) ELSE dflt

\* One rendered row of the list; index is the row's zero-based data-index.
RenderRow(s, index) ==
  LET method == s.paymentMethods[index + 1]
      item == MethodRecord(method)
      fm == s.fieldMapping
  IN  [ value |-> OrDefault(GetField(item, MappedField(fm, "valueField", "value"),
                                     <<"value", "id", "code">>), ToString(index)),
        title |-> OrDefault(GetField(item, MappedField(fm, "titleField", "title"),
                                     <<"title", "name", "label">>), ""),
        subtitle |-> OrDefault(GetField(item, MappedField(fm, "subtitleField", "subtitle"),
                                        <<"subtitle", "desc", "description">>), ""),
        icon |-> OrDefault(GetField(item, MappedField(fm, "iconField", "icon"),
                                    <<"icon", "emoji">>), "glyph"),
        selected |-> (s.selectedMethod = method
                        \/ (index = 0 /\ s.selectedMethod = "null")) ]

RenderPaymentMethods(s) ==
  [s EXCEPT !.renderedRows = [ i \in 1..Len(s.paymentMethods) |-> RenderRow(s, i - 1) ]]

\* The data-index of the first row carrying the 'selected' class, if any.
SelectedIndex(s) ==
  LET hits == { i \in 1..Len(s.renderedRows) : s.renderedRows[i].selected }
  IN  IF hits = {} THEN None ELSE Some((CHOOSE i \in hits : \A j \in hits : i <= j) - 1)

\* ------------------------------------------------------------ lifecycle
\* Amounts are given in thousandths; the displayed text is held in hundredths.
AmountArgs == { None, Some(12340), Some(9996) }

\* amount.toFixed(2), for amount >= 0
ToFixed2(amount) == (amount + 5) \div 10

\* A variant that restores the defaults on each opening.
RestoreDefaults_Always(s) ==
  RenderPaymentMethods(
    [s EXCEPT !.paymentMethods = DEFAULT_PAYMENT_METHODS,
              !.fieldMapping = DEFAULT_FIELD_MAPPING,
              !.selectedMethod = DEFAULT_PAYMENT_METHODS[1]])

\* if (!this.hasCustomPaymentMethods) { ... } of open()
RestoreDefaults(s) ==
  IF ~s.hasCustomPaymentMethods
  THEN RenderPaymentMethods(
         [s EXCEPT !.paymentMethods = DEFAULT_PAYMENT_METHODS,
                   !.fieldMapping = DEFAULT_FIELD_MAPPING,
                   !.selectedMethod = DEFAULT_PAYMENT_METHODS[1]])
  ELSE s

\* A variant that shows 0.00 when it is given no amount.
OpenSheet_ResetAmount(s, amount) ==
  LET s2 == [RestoreDefaults(s) EXCEPT !.hasCustomPaymentMethods = FALSE,
                                       !.isOpen = TRUE,
                                       !.bodyOverflow = "hidden"]
      s3 == IF amount # None
            THEN [s2 EXCEPT !.amountText = ToFixed2(amount[1])]
            ELSE [s2 EXCEPT !.amountText = 0]
  IN  [s3 EXCEPT !.framePending = TRUE]

\* open(amount?) past its isOpen guard, up to the frame it requests
OpenSheet(s, amount) ==
  LET s2 == [RestoreDefaults(s) EXCEPT !.hasCustomPaymentMethods = FALSE,
                                       !.isOpen = TRUE,
                                       !.bodyOverflow = "hidden"]
      s3 == IF amount # None
            THEN [s2 EXCEPT !.amountText = ToFixed2(amount[1])]
            ELSE s2
  IN  [s3 EXCEPT !.framePending = TRUE]

\* A variant without the guard.
Open_Unguarded(s, amount) == OpenSheet(s, amount)

\* open(amount?)
Open(s, amount) == IF s.isOpen THEN s ELSE OpenSheet(s, amount)

\* The callback open() handed to requestAnimationFrame runs.
ShowFrame(s) ==
  [s EXCEPT !.overlayShow = TRUE, !.panelShow = TRUE, !.framePending = FALSE]

\* A variant of close() that leaves the page locked.
Close_KeepLock(s) ==
  IF ~s.isOpen THEN s
  ELSE Emit([s EXCEPT !.isOpen = FALSE,
                      !.isDragging = FALSE,
                      !.overlayShow = FALSE,
                      !.overlayOpacity = None,
                      !.panelShow = FALSE,
                      !.panelDragging = FALSE,
                      !.panelTransform = None],
            "payment-close", None)

\* A variant of close() that leaves the track active.
Close_KeepTrack(s) ==
  IF ~s.isOpen THEN s
  ELSE Emit([s EXCEPT !.isOpen = FALSE,
                      !.bodyOverflow = "",
                      !.overlayShow = FALSE,
                      !.overlayOpacity = None,
                      !.panelShow = FALSE,
                      !.panelDragging = FALSE,
                      !.panelTransform = None],
            "payment-close", None)

\* A variant that dispatches payment-close whether or not the sheet was open.
Close_Unguarded(s) ==
  Emit([s EXCEPT !.isOpen = FALSE,
                 !.isDragging = FALSE,
                 !.bodyOverflow = "",
                 !.overlayShow = FALSE,
                 !.overlayOpacity = None,
                 !.panelShow = FALSE,
                 !.panelDragging = FALSE,
                 !.panelTransform = None],
       "payment-close", None)

\* close()
Close(s) ==
  IF ~s.isOpen THEN s
  ELSE Emit([s EXCEPT !.isOpen = FALSE,
                      !.isDragging = FALSE,
                      !.bodyOverflow = "",
                      !.overlayShow = FALSE,
                      !.overlayOpacity = None,
                      !.panelShow = FALSE,
                      !.panelDragging = FALSE,
                      !.panelTransform = None],
            "payment-close", None)

\* setAmount(amount)
SetAmount(s, amount) == [s EXCEPT !.amountText = ToFixed2(amount)]

\* -------------------------------------------------------------- gesture
\* A variant in which the content area is draggable.
InNoDragZone_NotContent(origin) == origin \in {"keyboard", "actions"}

\* content.contains(target) || actions.contains(target) || keyboard.contains(target)
InNoDragZone(origin) == origin \in {"content", "keyboard", "actions"}

\* handleDragStart, for a press at position y whose target lies in origin,
\* with Date.now() = t
HandleDragStart(s, origin, y, t) ==
  IF ~s.isOpen \/ ~s.allowSwipeToClose THEN s
  ELSE IF origin = "closeBtn" THEN s
  ELSE IF InNoDragZone(origin) THEN s
  ELSE [s EXCEPT !.isDragging = TRUE,
                 !.startY = y,
                 !.currentY = y,
                 !.startTime = t,
                 !.lastY = y,
                 !.lastTime = t,
                 !.velocity = <<0, 1>>,
                 !.panelDragging = TRUE]

\* Math.abs(distanceDelta) / timeDelta when timeDelta > 0, else the old value
MoveVelocity(s, y, t) ==
  IF t - s.lastTime > 0 THEN <<Abs(y - s.lastY), t - s.lastTime>> ELSE s.velocity

\* Math.max(0, 1 - deltaY / panelHeight)
DragOpacity(deltaY, height) == <<Max(0, height - deltaY), height>>

\* A variant that also follows the pointer above the press position.
HandleDragMove_Upward(s, y, t) ==
  IF ~s.isDragging THEN s
  ELSE [s EXCEPT !.velocity = MoveVelocity(s, y, t),
                 !.currentY = y,
                 !.lastY = y,
                 !.lastTime = t,
                 !.panelTransform = Some(y - s.startY),
                 !.overlayOpacity = Some(DragOpacity(y - s.startY, s.panelHeight))]

\* handleDragMove, for a sample at position y with Date.now() = t
HandleDragMove(s, y, t) ==
  IF ~s.isDragging THEN s
  ELSE IF y - s.startY < 0 THEN s
  ELSE [s EXCEPT !.velocity = MoveVelocity(s, y, t),
                 !.currentY = y,
                 !.lastY = y,
                 !.lastTime = t,
                 !.panelTransform = Some(y - s.startY),
                 !.overlayOpacity = Some(DragOpacity(y - s.startY, s.panelHeight))]

\* A variant that takes the smaller of the two distances.
EffectiveThreshold_Min(s) ==
  Min(s.closeThreshold * 100, s.panelHeight * s.closeThresholdPercent)

\* Math.max(closeThreshold, panelHeight * closeThresholdPercent), in hundredths of a pixel
EffectiveThreshold(s) ==
  Max(s.closeThreshold * 100, s.panelHeight * s.closeThresholdPercent)

\* finalVelocity of handleDragEnd
FinalVelocity(s) ==
  IF s.lastY # s.startY
  THEN <<s.currentY - s.lastY, Max(1, s.lastTime - s.startTime)>>
  ELSE <<0, 1>>

\* this.velocity > this.velocityThreshold
VelocityExceeds(s) == s.velocity[1] * 100 > s.velocityThreshold * s.velocity[2]

\* shouldClose of handleDragEnd
ShouldClose(s) ==
  LET deltaY == s.currentY - s.startY
  IN  \/ deltaY * 100 > EffectiveThreshold(s)
      \/ (VelocityExceeds(s) /\ FinalVelocity(s)[1] > 0 /\ deltaY > 0)

\* A variant whose snap-back leaves the inline overrides in place.
HandleDragEnd_NoSnapBack(s) ==
  IF ~s.isDragging THEN s
  ELSE
    LET s1 == [s EXCEPT !.isDragging = FALSE, !.panelDragging = FALSE]
        s2 == IF ShouldClose(s1) THEN Close(s1) ELSE s1
    IN  [s2 EXCEPT !.startY = 0, !.currentY = 0, !.velocity = <<0, 1>>]

\* handleDragEnd
HandleDragEnd(s) ==
  IF ~s.isDragging THEN s
  ELSE
    LET s1 == [s EXCEPT !.isDragging = FALSE, !.panelDragging = FALSE]
        s2 == IF ShouldClose(s1)
              THEN Close(s1)
              ELSE [s1 EXCEPT !.panelTransform = None, !.overlayOpacity = None]
    IN  [s2 EXCEPT !.startY = 0, !.currentY = 0, !.velocity = <<0, 1>>]

\* The press, move and release events as the registered listeners see them.
\* setupDragListeners adds a further set of listeners on every call, and one
\* event runs them all; the clock may tick between two of them.
PressEvent(s, origin, y, t, tick) ==
  IF origin = "closeBtn" THEN Close(s)
  ELSE LET s1 == HandleDragStart(s, origin, y, t)
       IN  IF s.dragListeners >= 2 THEN HandleDragStart(s1, origin, y, t + tick) ELSE s1

MoveEvent(s, y, t, tick) ==
  LET s1 == HandleDragMove(s, y, t)
  IN  IF s.dragListeners >= 2 THEN HandleDragMove(s1, y, t + tick) ELSE s1

ReleaseEvent(s) ==
  LET s1 == HandleDragEnd(s)
  IN  IF s.dragListeners >= 2 THEN HandleDragEnd(s1) ELSE s1

\* -------------------------------------------------------- configuration
AttrNames == { "close-threshold", "close-threshold-percent", "velocity-threshold",
               "close-on-overlay-click", "enable-password", "password-length" }

\* parseFloat(newValue) || dflt, parseInt(newValue) || dflt
ParsedOr(v, dflt) == IF v # 0 THEN v ELSE dflt

\* attributeChangedCallback(name, oldValue, newValue); a value is None or Some(v)
AttributeChangedCallback(s, name, oldValue, newValue) ==
  IF oldValue = newValue THEN s
  ELSE CASE name = "close-threshold" ->
              [s EXCEPT !.closeThreshold = ParsedOr(newValue[1], 100)]
         [] name = "close-threshold-percent" ->
              [s EXCEPT !.closeThresholdPercent = ParsedOr(newValue[1], 30)]
         [] name = "velocity-threshold" ->
              [s EXCEPT !.velocityThreshold = ParsedOr(newValue[1], 50)]
         [] name = "close-on-overlay-click" ->
              [s EXCEPT !.closeOnOverlayClick = newValue[1]]
         [] name = "enable-password" ->
              [s EXCEPT !.enablePassword = newValue[1]]
         [] name = "password-length" ->
              [s EXCEPT !.passwordLength = ParsedOr(newValue[1], 6)]

\* this.setAttribute(name, String(v)): the attribute is set and the element's
\* attributeChangedCallback runs before setAttribute returns.
SetAttribute(s, name, v) ==
  AttributeChangedCallback([s EXCEPT !.attrs[name] = Some(v)], name, s.attrs[name], Some(v))

\* A variant that stores the percentage as given.
ClampPercent_None(percent) == percent

\* Math.max(0, Math.min(1, percent)), in hundredths
ClampPercent(percent) == Max(0, Min(100, percent))

\* A variant without the upper limit.
ClampPasswordLength_NoMax(length) == Max(4, length)

\* Math.max(4, Math.min(12, length))
ClampPasswordLength(length) == Max(4, Min(12, length))

SetCloseThreshold(s, threshold) ==
  SetAttribute([s EXCEPT !.closeThreshold = threshold], "close-threshold", threshold)

SetCloseThresholdPercent(s, percent) ==
  SetAttribute([s EXCEPT !.closeThresholdPercent = ClampPercent(percent)],
               "close-threshold-percent", ClampPercent(percent))

SetVelocityThreshold(s, threshold) ==
  SetAttribute([s EXCEPT !.velocityThreshold = threshold], "velocity-threshold", threshold)

RenderPasswordDots(s) ==
  [s EXCEPT !.passwordDots = [ total |-> s.passwordLength,
                               filled |-> Min(Len(s.currentPassword), s.passwordLength) ]]

\* A variant that leaves the action row as it is.
UpdatePasswordUI_KeepActions(s) ==
  [s EXCEPT !.passwordSectionShown = s.enablePassword]

\* updatePasswordUI()
UpdatePasswordUI(s) ==
  [s EXCEPT !.passwordSectionShown = s.enablePassword,
            !.actionsShown = ~s.enablePassword]

UpdateDragHandleVisibility(s) ==
  [s EXCEPT !.dragHandleHidden = ~s.allowSwipeToClose]

UpdateHeaderTitle(s) == [s EXCEPT !.headerText = s.headerTitle]

SetupDragListeners(s) ==
  IF ~s.allowSwipeToClose THEN s
  ELSE [s EXCEPT !.dragListeners = Min(@ + 1, MaxListeners)]

\* A variant in which the old listener survives the replacement of the overlay.
RebindOverlay_Stacked(s) ==
  [s EXCEPT !.overlayClickBound = @ \/ s.closeOnOverlayClick]

\* The overlay is replaced by a clone, which has no listeners, and the click
\* listener is added to the clone when closeOnOverlayClick is set.
RebindOverlay(s) == [s EXCEPT !.overlayClickBound = s.closeOnOverlayClick]

ClearPassword(s) == RenderPasswordDots([s EXCEPT !.currentPassword = <<>>])

SetCloseOnOverlayClick(s, close) ==
  RebindOverlay(SetAttribute([s EXCEPT !.closeOnOverlayClick = close],
                             "close-on-overlay-click", close))

SetEnablePassword(s, enable) ==
  LET s1 == UpdatePasswordUI(SetAttribute([s EXCEPT !.enablePassword = enable],
                                          "enable-password", enable))
  IN  IF ~enable THEN ClearPassword(s1) ELSE s1

SetPasswordLength(s, length) ==
  ClearPassword(SetAttribute([s EXCEPT !.passwordLength = ClampPasswordLength(length)],
                             "password-length", ClampPasswordLength(length)))

SetHeaderTitle(s, title) ==
  UpdateHeaderTitle([s EXCEPT !.headerTitle = IF title # "" THEN title ELSE "pay"])

\* A configuration object: every key is None (absent) or Some(value).
ConfigKeys == { "allowSwipeToClose", "closeThreshold", "closeThresholdPercent",
                "velocityThreshold", "closeOnOverlayClick", "enablePassword",
                "passwordLength", "headerTitle" }
EmptyConfig == [ k \in ConfigKeys |-> None ]

\* A variant in which an absent allowSwipeToClose turns swiping off.
ConfigValue_SwipeOff(config, key) ==
  IF config[key] # None THEN config[key][1]
  ELSE IF key = "allowSwipeToClose" THEN FALSE
  ELSE DEFAULT_CONFIG[key]

\* config.<key> !== undefined ? config.<key> : DEFAULT_CONFIG.<key>
ConfigValue(config, key) ==
  IF config[key] # None THEN config[key][1] ELSE DEFAULT_CONFIG[key]

\* setConfig(config)
SetConfig(s, config) ==
  LET a == SetupDragListeners(UpdateDragHandleVisibility(
             [s EXCEPT !.allowSwipeToClose = ConfigValue(config, "allowSwipeToClose")]))
      b == SetAttribute([a EXCEPT !.closeThreshold = ConfigValue(config, "closeThreshold")],
                        "close-threshold", ConfigValue(config, "closeThreshold"))
      pct == IF config["closeThresholdPercent"] # None
             THEN ClampPercent(config["closeThresholdPercent"][1])
             ELSE DEFAULT_CONFIG.closeThresholdPercent
      c == SetAttribute([b EXCEPT !.closeThresholdPercent = pct],
                        "close-threshold-percent", pct)
      d == SetAttribute([c EXCEPT !.velocityThreshold = ConfigValue(config, "velocityThreshold")],
                        "velocity-threshold", ConfigValue(config, "velocityThreshold"))
      e == RebindOverlay(
             SetAttribute([d EXCEPT !.closeOnOverlayClick = ConfigValue(config, "closeOnOverlayClick")],
                          "close-on-overlay-click", ConfigValue(config, "closeOnOverlayClick")))
      f == UpdatePasswordUI(
             SetAttribute([e EXCEPT !.enablePassword = ConfigValue(config, "enablePassword")],
                          "enable-password", ConfigValue(config, "enablePassword")))
      g == IF ~f.enablePassword THEN ClearPassword(f) ELSE f
      len == IF config["passwordLength"] # None
             THEN ClampPasswordLength(config["passwordLength"][1])
             ELSE DEFAULT_CONFIG.passwordLength
      h == SetAttribute([g EXCEPT !.passwordLength = len], "password-length", len)
      i == IF config["passwordLength"] # None THEN ClearPassword(h) ELSE h
      title == IF config["headerTitle"] # None /\ config["headerTitle"][1] # ""
               THEN config["headerTitle"][1]
               ELSE DEFAULT_CONFIG.headerTitle
  IN  UpdateHeaderTitle([i EXCEPT !.headerTitle = title])

\* ------------------------------------------------------ method registry
\* setPaymentMethods(methods?, fieldMapping?); an argument is None or Some(v)
\* A variant that installs an empty list as given.
SetPaymentMethods_KeepEmpty(s, methods, mapping) ==
  LET s1 == IF methods = None
            THEN [s EXCEPT !.paymentMethods = DEFAULT_PAYMENT_METHODS,
                           !.fieldMapping = DEFAULT_FIELD_MAPPING,
                           !.hasCustomPaymentMethods = FALSE]
            ELSE [s EXCEPT !.paymentMethods = methods[1],
                           !.fieldMapping = IF mapping # None THEN mapping[1]
                                            ELSE DEFAULT_FIELD_MAPPING,
                           !.hasCustomPaymentMethods = TRUE]
      s2 == RenderPaymentMethods(s1)
  IN  [s2 EXCEPT !.selectedMethod = IF Len(s2.paymentMethods) > 0
                                    THEN s2.paymentMethods[1] ELSE "null"]

\* setPaymentMethods(methods?, fieldMapping?)
SetPaymentMethods(s, methods, mapping) ==
  LET s1 == IF methods = None \/ Len(methods[1]) = 0
            THEN [s EXCEPT !.paymentMethods = DEFAULT_PAYMENT_METHODS,
                           !.fieldMapping = DEFAULT_FIELD_MAPPING,
                           !.hasCustomPaymentMethods = FALSE]
            ELSE [s EXCEPT !.paymentMethods = methods[1],
                           !.fieldMapping = IF mapping # None THEN mapping[1]
                                            ELSE DEFAULT_FIELD_MAPPING,
                           !.hasCustomPaymentMethods = TRUE]
      s2 == RenderPaymentMethods(s1)
  IN  [s2 EXCEPT !.selectedMethod = IF Len(s2.paymentMethods) > 0
                                    THEN s2.paymentMethods[1] ELSE "null"]

\* getSelectedMethod()
GetSelectedMethod(s) == s.selectedMethod

\* A variant that leaves the method list alone.
ResetConfig_OptionsOnly(s) == SetConfig(s, EmptyConfig)

\* resetConfig()
ResetConfig(s) == SetPaymentMethods(SetConfig(s, EmptyConfig), None, None)

\* The delegated click listener of the panel, for a click on the row with
\* zero-based data-index index.
MethodRowClick(s, index) ==
  [s EXCEPT !.selectedMethod = s.paymentMethods[index + 1],
            !.renderedRows = [ i \in 1..Len(s.renderedRows) |->
                                 [s.renderedRows[i] EXCEPT !.selected = (i = index + 1)] ]]

\* The record the confirm paths read back from the rendered list:
\* paymentMethods[data-index of the row marked selected], or null.
RenderedSelection(s) ==
  LET idx == SelectedIndex(s)
  IN  IF idx = None THEN "null"
      ELSE IF idx[1] + 1 <= Len(s.paymentMethods) THEN s.paymentMethods[idx[1] + 1]
      ELSE "undefined"

\* selectedMethod?.value || selectedMethod
PayloadMethod(m) ==
  IF m \in {"null", "undefined"} THEN <<"ref", m>>
  ELSE IF "value" \in DOMAIN MethodRecord(m) /\ Truthy(MethodRecord(m).value)
       THEN MethodRecord(m).value
       ELSE <<"ref", m>>

\* A variant whose payload also carries the buffer.
ConfirmDetail_WithPassword(s) ==
  [ method |-> PayloadMethod(RenderedSelection(s)),
    methodData |-> RenderedSelection(s),
    amount |-> s.amountText,
    password |-> s.currentPassword ]

\* The detail of the payment-confirm event of the confirm button.
ConfirmDetail(s) ==
  [ method |-> PayloadMethod(RenderedSelection(s)),
    methodData |-> RenderedSelection(s),
    amount |-> s.amountText ]

\* The click listeners of the buttons and of the overlay.
ConfirmClick(s) == Close(Emit(s, "payment-confirm", Some(ConfirmDetail(s))))

CancelClick(s) == Close(s)

OverlayClick(s) == IF s.overlayClickBound THEN Close(s) ELSE s

\* ---------------------------------------------------------- password pad
\* Keys of the pad that are pressed.
KeyArgs == { 1, 2 }

\* A variant that keeps the buffer after submitting it.
CheckPasswordComplete_KeepBuffer(s) ==
  IF Len(s.currentPassword) = s.passwordLength
  THEN LET detail == [ method |-> PayloadMethod(RenderedSelection(s)),
                       methodData |-> RenderedSelection(s),
                       amount |-> s.amountText,
                       password |-> s.currentPassword ]
       IN  Close(Emit(s, "payment-confirm", Some(detail)))
  ELSE s

\* checkPasswordComplete()
CheckPasswordComplete(s) ==
  IF Len(s.currentPassword) = s.passwordLength
  THEN LET detail == [ method |-> PayloadMethod(RenderedSelection(s)),
                       methodData |-> RenderedSelection(s),
                       amount |-> s.amountText,
                       password |-> s.currentPassword ]
           s1 == Emit(s, "payment-confirm", Some(detail))
       IN  Close(RenderPasswordDots([s1 EXCEPT !.currentPassword = <<>>]))
  ELSE s

\* The click listener of a number key.
NumberKeyClick(s, key) ==
  IF Len(s.currentPassword) < s.passwordLength
  THEN CheckPasswordComplete(
         RenderPasswordDots([s EXCEPT !.currentPassword = Append(@, key)]))
  ELSE s

\* The click listener of the delete key.
DeleteKeyClick(s) ==
  IF Len(s.currentPassword) > 0
  THEN RenderPasswordDots(
         [s EXCEPT !.currentPassword = SubSeq(@, 1, Len(@) - 1)])
  ELSE s

\* --------------------------------------------------------- global wrapper
\* A variant that does not look for the body.
GetInstance_NoBodyCheck(s) ==
  IF s.globalInstance # None THEN s
  ELSE [s EXCEPT !.globalInstance = Some(s.instancesCreated + 1),
                 !.instancesCreated = @ + 1,
                 !.bodyChildren = Append(@, s.instancesCreated + 1)]

\* getInstance(): the shared instance if there is one; otherwise, when the
\* body exists, a new element is created, appended to the body and kept, and
\* when it does not, an Error is thrown.
GetInstance(s) ==
  IF s.globalInstance # None THEN s
  ELSE IF s.bodyReady
       THEN [s EXCEPT !.globalInstance = Some(s.instancesCreated + 1),
                      !.instancesCreated = @ + 1,
                      !.bodyChildren = Append(@, s.instancesCreated + 1)]
       ELSE [s EXCEPT !.thrown = TRUE]

\* getInstance().method(...), where g is the state getInstance() leaves and
\* result the state the method leaves when run from g: the method runs on
\* the shared instance, and not at all when getInstance throws.
Forward(g, result) == IF g.thrown THEN g ELSE result

\* instance.addEventListener(type, handler): a listener already in the list
\* is not added again.
AddEventListener(s, type, handler) ==
  IF \E i \in 1..Len(s.listeners[type]) : s.listeners[type][i] = handler THEN s
  ELSE [s EXCEPT !.listeners[type] = Append(@, handler)]

\* instance.removeEventListener(type, handler)
RemoveEventListener(s, type, handler) ==
  [s EXCEPT !.listeners[type] = SelectSeq(@, LAMBDA h : h # handler)]

\* PaymentPanel.on(event, handler)
On(s, event, handler) ==
  Forward(GetInstance(s),
          AddEventListener(RemoveEventListener(GetInstance(s), event, handler),
                           event, handler))

\* A variant that removes nothing.
Off_Keep(s, event, handler) == GetInstance(s)

\* PaymentPanel.off(event, handler)
Off(s, event, handler) ==
  Forward(GetInstance(s), RemoveEventListener(GetInstance(s), event, handler))

\* ------------------------------------------------------------------ Init
\* The panel as document.createElement('payment-panel') and appendChild leave
\* it: constructed, connected, rendered, no attribute set.
\* The element after construction and connection.
PanelInit ==
  /\ isOpen = FALSE /\ isDragging = FALSE
  /\ startY = 0 /\ currentY = 0 /\ startTime = 0 /\ lastY = 0 /\ lastTime = 0
  /\ velocity = <<0, 1>>
  /\ allowSwipeToClose = DEFAULT_CONFIG.allowSwipeToClose
  /\ closeThreshold = DEFAULT_CONFIG.closeThreshold
  /\ closeThresholdPercent = DEFAULT_CONFIG.closeThresholdPercent
  /\ velocityThreshold = DEFAULT_CONFIG.velocityThreshold
  /\ closeOnOverlayClick = DEFAULT_CONFIG.closeOnOverlayClick
  /\ enablePassword = DEFAULT_CONFIG.enablePassword
  /\ passwordLength = DEFAULT_CONFIG.passwordLength
  /\ currentPassword = <<>>
  /\ headerTitle = DEFAULT_CONFIG.headerTitle
  /\ paymentMethods = DEFAULT_PAYMENT_METHODS
  /\ fieldMapping = DEFAULT_FIELD_MAPPING
  /\ selectedMethod = DEFAULT_PAYMENT_METHODS[1]
  /\ hasCustomPaymentMethods = FALSE
  /\ attrs = [ n \in AttrNames |-> None ]
  /\ panelShow = FALSE /\ overlayShow = FALSE /\ panelDragging = FALSE
  /\ panelTransform = None /\ overlayOpacity = None
  /\ overlayClickBound = DEFAULT_CONFIG.closeOnOverlayClick
  /\ dragListeners = 1
  /\ dragHandleHidden = FALSE
  /\ passwordSectionShown = FALSE /\ actionsShown = TRUE
  /\ passwordDots = [ total |-> DEFAULT_CONFIG.passwordLength, filled |-> 0 ]
  /\ renderedRows =
       [ i \in 1..Len(DEFAULT_PAYMENT_METHODS) |->
           RenderRow([ paymentMethods |-> DEFAULT_PAYMENT_METHODS,
                       fieldMapping |-> DEFAULT_FIELD_MAPPING,
                       selectedMethod |-> DEFAULT_PAYMENT_METHODS[1] ], i - 1) ]
  /\ amountText = 0
  /\ headerText = DEFAULT_CONFIG.headerTitle
  /\ bodyOverflow = ""
  /\ framePending = FALSE
  /\ now = 0
  /\ panelHeight \in PanelHeights
  /\ lastOp = <<"init">>
  /\ emitted = <<>> /\ invoked = <<>> /\ thrown = FALSE

\* The global wrapper before its first use, in a document whose body exists
\* or not.
WrapperInit(ready) ==
  /\ bodyReady = ready
  /\ globalInstance = None
  /\ instancesCreated = 0
  /\ bodyChildren = <<>>
  /\ listeners = [ type \in EventNames |-> <<>> ]

\* A panel element of the page, used directly.
Init == PanelInit /\ WrapperInit(TRUE)

\* A page that loads the global wrapper before its body is parsed; the
\* panel's variables hold the state the shared instance has once created.
InitApi == PanelInit /\ WrapperInit(FALSE)

\* --------------------------------------------------------------- actions
\* Calls of the public methods.
\* lastOp: <<"open", the amount argument, whether the sheet was closed>>
DoOpen(amounts) ==
  \E amount \in amounts :
    Step(<<"open", amount, ~isOpen>>, Open(Begin, amount))

DoClose == Step(<<"close">>, Close(Begin))

\* lastOp: <<"setAmount", the amount>>
DoSetAmount ==
  \E amount \in AmountArgs \ {None} :
    Step(<<"setAmount", amount[1]>>, SetAmount(Begin, amount[1]))

\* lastOp of a setter: <<its name, its argument>>
DoSetCloseThreshold(thresholds) ==
  \E threshold \in thresholds :
    Step(<<"setCloseThreshold", threshold>>, SetCloseThreshold(Begin, threshold))

DoSetCloseThresholdPercent(percents) ==
  \E percent \in percents :
    Step(<<"setCloseThresholdPercent", percent>>, SetCloseThresholdPercent(Begin, percent))

DoSetVelocityThreshold(thresholds) ==
  \E threshold \in thresholds :
    Step(<<"setVelocityThreshold", threshold>>, SetVelocityThreshold(Begin, threshold))

DoSetCloseOnOverlayClick ==
  \E close \in BOOLEAN :
    Step(<<"setCloseOnOverlayClick", close>>, SetCloseOnOverlayClick(Begin, close))

\* lastOp: <<"setPaymentMethods", the list argument, the mapping argument>>
DoSetPaymentMethods ==
  \E methods \in MethodListArgs, mapping \in FieldMappingArgs :
    Step(<<"setPaymentMethods", methods, mapping>>,
         SetPaymentMethods(Begin, methods, mapping))

DoSetEnablePassword ==
  \E enable \in BOOLEAN :
    Step(<<"setEnablePassword", enable>>, SetEnablePassword(Begin, enable))

DoSetPasswordLength(lengths) ==
  \E length \in lengths :
    Step(<<"setPasswordLength", length>>, SetPasswordLength(Begin, length))

DoSetHeaderTitle(titles) ==
  \E title \in titles :
    Step(<<"setHeaderTitle", title>>, SetHeaderTitle(Begin, title))

\* lastOp: <<"setConfig", the configuration object>>
DoSetConfig(configs) ==
  \E config \in configs :
    Step(<<"setConfig", config>>, SetConfig(Begin, config))

DoResetConfig == Step(<<"resetConfig">>, ResetConfig(Begin))

\* The frame requested by open() is painted.
DoFrame ==
  /\ framePending
  /\ Step(<<"frame">>, ShowFrame(Begin))

\* Whether a press in origin starts a track.
PressCaptured(s, origin) ==
  s.isOpen /\ s.allowSwipeToClose /\ origin # "closeBtn" /\ ~InNoDragZone(origin)

\* The direction of a move sample at y, as an observer of the pointer sees
\* it: 1 down, -1 up or above the press position, 0 level or no track.
MoveDir(s, y) ==
  IF ~s.isDragging THEN 0
  ELSE IF y < s.startY THEN -1
  ELSE IF y > s.lastY THEN 1
  ELSE IF y < s.lastY THEN -1
  ELSE 0

\* A millisecond passes.
Tick ==
  /\ now < MaxTime
  /\ Step(<<"tick">>, [Begin EXCEPT !.now = now + 1])

\* Pointer events; Date.now() is now when the first listener runs, and tick
\* later when the stacked ones do.
\* lastOp: <<"press", origin, whether the press started a track>>
DoPress(origins, ys, ticks) ==
  \E origin \in origins, y \in ys, tick \in IF dragListeners >= 2 THEN ticks ELSE {0} :
    /\ now + tick <= MaxTime
    /\ Step(<<"press", origin, PressCaptured(Begin, origin)>>,
            [PressEvent(Begin, origin, y, now, tick) EXCEPT !.now = now + tick])

\* lastOp: <<"move", direction of the sample, whether the sample lies above
\*          the press position of an active track>>
DoMove(ys, ticks) ==
  \E y \in ys, tick \in IF dragListeners >= 2 THEN ticks ELSE {0} :
    /\ now + tick <= MaxTime
    /\ Step(<<"move", MoveDir(Begin, y), isDragging /\ y < startY>>,
            [MoveEvent(Begin, y, now, tick) EXCEPT !.now = now + tick])

\* lastOp: <<"release", whether a track was active, its final displacement,
\*          whether its velocity was above the threshold, the direction of
\*          the move sample that came just before (0 if none did)>>
DoRelease ==
  Step(<<"release", isDragging, currentY - startY, VelocityExceeds(Begin),
         IF lastOp[1] = "move" THEN lastOp[2] ELSE 0>>,
       ReleaseEvent(Begin))

\* Clicks.  A control that is not displayed cannot be clicked.
DoMethodRowClick ==
  \E index \in 0..(Len(renderedRows) - 1) :
    Step(<<"rowClick">>, MethodRowClick(Begin, index))

DoConfirmClick ==
  /\ actionsShown
  /\ Step(<<"confirmClick">>, ConfirmClick(Begin))

DoCancelClick ==
  /\ actionsShown
  /\ Step(<<"cancelClick">>, CancelClick(Begin))

DoOverlayClick ==
  /\ overlayShow
  /\ Step(<<"overlayClick">>, OverlayClick(Begin))

\* lastOp: <<"numberKey", the key>>
DoNumberKeyClick(keys) ==
  \E key \in keys :
    /\ passwordSectionShown
    /\ Step(<<"numberKey", key>>, NumberKeyClick(Begin, key))

DoDeleteKeyClick ==
  /\ passwordSectionShown
  /\ Step(<<"deleteKey">>, DeleteKeyClick(Begin))

\* -------------------------------------------------------- specifications
\* The gesture recognizer with the thresholds it reads.
NextGesture ==
  \/ DoOpen({None})
  \/ DoClose
  \/ DoFrame
  \/ Tick
  \/ DoPress(Origins, Ys, {0})
  \/ DoMove(Ys, {0})
  \/ DoRelease

SpecGesture == Init /\ [][NextGesture]_vars

\* The close decision under the thresholds the setters can leave behind.
ThresholdYs == {0, 120, 130}
ThresholdConfigArgs ==
  { [EmptyConfig EXCEPT !["closeThreshold"] = Some(-50),
                        !["closeThresholdPercent"] = Some(-20),
                        !["velocityThreshold"] = Some(0)] }

NextThreshold ==
  \/ DoOpen({None})
  \/ DoClose
  \/ Tick
  \/ DoPress({"header"}, ThresholdYs, {0})
  \/ DoMove(ThresholdYs, {0})
  \/ DoRelease
  \/ DoSetCloseThreshold(CloseThresholdArgs)
  \/ DoSetCloseThresholdPercent(PercentArgs)
  \/ DoSetVelocityThreshold(VelocityArgs)
  \/ DoSetConfig(ThresholdConfigArgs)

SpecThreshold == Init /\ [][NextThreshold]_vars

\* The sheet and its method list: opening, closing, the registry, the rows
\* and the two buttons.
NextSheet ==
  \/ DoOpen(AmountArgs)
  \/ DoClose
  \/ DoFrame
  \/ DoSetPaymentMethods
  \/ DoMethodRowClick
  \/ DoConfirmClick
  \/ DoCancelClick

SpecSheet == Init /\ [][NextSheet]_vars

\* Every way the sheet closes.
NextClose ==
  \/ DoOpen({None})
  \/ DoClose
  \/ DoFrame
  \/ DoConfirmClick
  \/ DoCancelClick
  \/ DoOverlayClick
  \/ DoPress({"header", "closeBtn"}, {0}, {0})
  \/ DoMove({130}, {0})
  \/ DoRelease
  \/ DoSetEnablePassword
  \/ DoNumberKeyClick({1})
  \/ DoDeleteKeyClick

SpecClose == Init /\ [][NextClose]_vars

\* Password entry on the pad.
PasswordLengthArgs == {3, 5}

NextPassword ==
  \/ DoOpen({None})
  \/ DoClose
  \/ DoFrame
  \/ DoSetEnablePassword
  \/ DoSetPasswordLength(PasswordLengthArgs)
  \/ DoNumberKeyClick(KeyArgs)
  \/ DoDeleteKeyClick

SpecPassword == Init /\ [][NextPassword]_vars

\* The password buffer under the calls that reconfigure the pad.
BufferLengthArgs == {8}
BufferConfigArgs ==
  { EmptyConfig,
    [EmptyConfig EXCEPT !["enablePassword"] = Some(TRUE)],
    [EmptyConfig EXCEPT !["enablePassword"] = Some(TRUE), !["passwordLength"] = Some(5)] }

NextBuffer ==
  \/ DoOpen({None})
  \/ DoClose
  \/ DoFrame
  \/ DoOverlayClick
  \/ DoSetEnablePassword
  \/ DoSetPasswordLength(BufferLengthArgs)
  \/ DoSetConfig(BufferConfigArgs)
  \/ DoResetConfig
  \/ DoNumberKeyClick({1})
  \/ DoDeleteKeyClick

SpecBuffer == Init /\ [][NextBuffer]_vars

\* The two ways a payment is confirmed, over the lists a caller installs.
ConfirmLengthArgs == {3}

NextConfirm ==
  \/ DoOpen({None})
  \/ DoClose
  \/ DoFrame
  \/ DoSetPaymentMethods
  \/ DoMethodRowClick
  \/ DoConfirmClick
  \/ DoSetEnablePassword
  \/ DoSetPasswordLength(ConfirmLengthArgs)
  \/ DoNumberKeyClick({1})
  \/ DoDeleteKeyClick

SpecConfirm == Init /\ [][NextConfirm]_vars

\* The options under setConfig, resetConfig and the individual setters.
\* A configuration object supplies no key, one key, or all of them.
OptionValues ==
  [ allowSwipeToClose |-> {FALSE},
    closeThreshold |-> {0, 50},
    closeThresholdPercent |-> {-20, 0, 40, 150},
    velocityThreshold |-> {0, 80},
    closeOnOverlayClick |-> {FALSE},
    enablePassword |-> {TRUE},
    passwordLength |-> {2, 8, 99},
    headerTitle |-> {"t1"} ]
FullConfig ==
  [ allowSwipeToClose |-> Some(FALSE), closeThreshold |-> Some(50),
    closeThresholdPercent |-> Some(40), velocityThreshold |-> Some(80),
    closeOnOverlayClick |-> Some(FALSE), enablePassword |-> Some(TRUE),
    passwordLength |-> Some(8), headerTitle |-> Some("t1") ]
ConfigArgs ==
  {EmptyConfig, FullConfig}
    \cup UNION { { [EmptyConfig EXCEPT ![k] = Some(v)] : v \in OptionValues[k] } : k \in ConfigKeys }
ConfigPercentArgs == {-20, 0, 150}
ConfigLengthArgs == {2, 7, 99}

NextConfig ==
  \/ DoSetConfig(ConfigArgs)
  \/ DoResetConfig
  \/ DoSetCloseThreshold({125})
  \/ DoSetCloseThresholdPercent(ConfigPercentArgs)
  \/ DoSetVelocityThreshold(VelocityArgs)
  \/ DoSetCloseOnOverlayClick
  \/ DoSetEnablePassword
  \/ DoSetPasswordLength(ConfigLengthArgs)
  \/ DoSetHeaderTitle({"t2"})

SpecConfig == Init /\ [][NextConfig]_vars

\* resetConfig() from the states the other calls leave.
ResetAmountArgs == {None, Some(12340)}

NextReset ==
  \/ DoOpen(ResetAmountArgs)
  \/ DoClose
  \/ DoFrame
  \/ DoSetPaymentMethods
  \/ DoMethodRowClick
  \/ DoSetConfig({FullConfig})
  \/ DoSetEnablePassword
  \/ DoNumberKeyClick({1})
  \/ DoResetConfig

SpecReset == Init /\ [][NextReset]_vars

\* Backdrop clicks after the calls that re-bind the overlay's click listener.
OverlayConfigArgs ==
  { EmptyConfig,
    [EmptyConfig EXCEPT !["closeOnOverlayClick"] = Some(FALSE)],
    [EmptyConfig EXCEPT !["closeOnOverlayClick"] = Some(TRUE)],
    [EmptyConfig EXCEPT !["headerTitle"] = Some("t1")],
    [EmptyConfig EXCEPT !["enablePassword"] = Some(TRUE)] }

NextOverlay ==
  \/ DoOpen(ResetAmountArgs)
  \/ DoClose
  \/ DoFrame
  \/ DoOverlayClick
  \/ DoSetCloseOnOverlayClick
  \/ DoSetConfig(OverlayConfigArgs)
  \/ DoResetConfig

SpecOverlay == Init /\ [][NextOverlay]_vars

\* Gestures around calls that turn swipe-to-close off and on.
SwipeYs == {0, 50, 130}
SwipeConfigArgs ==
  { EmptyConfig, [EmptyConfig EXCEPT !["allowSwipeToClose"] = Some(FALSE)] }

NextSwipe ==
  \/ DoOpen({None})
  \/ DoClose
  \/ DoFrame
  \/ DoPress({"header", "content"}, SwipeYs, {0})
  \/ DoMove(SwipeYs, {0})
  \/ DoRelease
  \/ DoSetConfig(SwipeConfigArgs)
  \/ DoResetConfig

SpecSwipe == Init /\ [][NextSwipe]_vars

\* The global wrapper: calls through PaymentPanel.*, from before the body of
\* the document exists.
\* lastOp of a forwarded call: <<"api", the method's name>>
ApiOpen(amounts) ==
  \E amount \in amounts :
    Step(<<"api", "open">>,
         Forward(GetInstance(Begin), Open(GetInstance(Begin), amount)))

ApiClose ==
  Step(<<"api", "close">>, Forward(GetInstance(Begin), Close(GetInstance(Begin))))

ApiSetEnablePassword ==
  \E enable \in BOOLEAN :
    Step(<<"api", "setEnablePassword">>,
         Forward(GetInstance(Begin), SetEnablePassword(GetInstance(Begin), enable)))

\* lastOp: <<"on", the event, the handler>>
ApiOn ==
  \E event \in EventNames, handler \in Handlers :
    Step(<<"on", event, handler>>, On(Begin, event, handler))

\* lastOp: <<"off", the event, the handler>>
ApiOff ==
  \E event \in EventNames, handler \in Handlers :
    Step(<<"off", event, handler>>, Off(Begin, event, handler))

\* The parser reaches the body of the document.
DoBodyReady ==
  /\ ~bodyReady
  /\ Step(<<"bodyReady">>, [Begin EXCEPT !.bodyReady = TRUE])

\* A click on the confirm button of the shared instance.
ApiConfirmClick ==
  /\ globalInstance # None
  /\ DoConfirmClick

NextApi ==
  \/ DoBodyReady
  \/ ApiOpen({None})
  \/ ApiClose
  \/ ApiSetEnablePassword
  \/ ApiOn
  \/ ApiOff
  \/ DoFrame
  \/ ApiConfirmClick
  \/ DoOverlayClick

SpecApi == InitApi /\ [][NextApi]_vars

\* Tracks whose samples lie above the press position, below it, and further
\* below it than the sheet is high.
TrackYs == {0, 120, 450}

NextTrack ==
  \/ DoOpen({None})
  \/ DoClose
  \/ DoFrame
  \/ Tick
  \/ DoPress({"header", "content"}, TrackYs, {0})
  \/ DoMove(TrackYs, {0})
  \/ DoRelease

SpecTrack == Init /\ [][NextTrack]_vars

\* The displayed amount across open/close cycles, setAmount, configuration
\* and method calls, and confirmations by button and by password.
AmountConfigArgs ==
  { EmptyConfig,
    [EmptyConfig EXCEPT !["enablePassword"] = Some(TRUE), !["passwordLength"] = Some(4)] }

NextAmount ==
  \/ DoOpen(AmountArgs)
  \/ DoClose
  \/ DoFrame
  \/ DoSetAmount
  \/ DoSetPaymentMethods
  \/ DoMethodRowClick
  \/ DoSetConfig(AmountConfigArgs)
  \/ DoResetConfig
  \/ DoConfirmClick
  \/ DoNumberKeyClick({1})

SpecAmount == Init /\ [][NextAmount]_vars

\* Gestures after configuration calls; the clock may tick between two
\* listeners of one event.
ListenerYs == {0, 50}
ListenerTicks == {0, 1}

NextListeners ==
  \/ DoOpen({None})
  \/ DoFrame
  \/ Tick
  \/ DoSetConfig({EmptyConfig})
  \/ DoResetConfig
  \/ DoPress({"header"}, ListenerYs, ListenerTicks)
  \/ DoMove(ListenerYs, ListenerTicks)
  \/ DoRelease

SpecListeners == Init /\ [][NextListeners]_vars

\* ================================================================ claims
CloseEvent == [type |-> "payment-close", detail |-> None]
EligibleOrigins == {"dragHandle", "header", "panelOther"}
NoCaptureOrigins == {"content", "actions", "keyboard", "closeBtn"}

\* A release that ended an active track: lastOp[3] is its final displacement,
\* lastOp[4] whether its last measured velocity was above velocityThreshold,
\* lastOp[5] the direction of the move sample just before it.
TrackReleased == lastOp[1] = "release" /\ lastOp[2]

\* C1 -- velocity rule, as the documentation states it: a release with a
\* positive final displacement that is not above the effective distance
\* threshold, a last measured velocity above velocityThreshold and a downward
\* last movement closes the sheet and emits payment-close.
C1_VelocityRuleCloses ==
  ( /\ TrackReleased
    /\ lastOp[3] > 0
    /\ lastOp[3] * 100 <= Max(closeThreshold * 100, panelHeight * closeThresholdPercent)
    /\ lastOp[4]
    /\ lastOp[5] = 1 )
  => (~isOpen /\ emitted = <<CloseEvent>>)

\* C2 -- distance rule: a release with a velocity not above the threshold
\* closes the sheet if and only if the final displacement is strictly greater
\* than max(closeThreshold, panelHeight * closeThresholdPercent); otherwise
\* the sheet stays open and snaps back.
C2_DistanceRule ==
  (TrackReleased /\ ~lastOp[4]) =>
    IF lastOp[3] * 100 > Max(closeThreshold * 100, panelHeight * closeThresholdPercent)
    THEN ~isOpen /\ emitted = <<CloseEvent>>
    ELSE /\ isOpen /\ emitted = <<>>
         /\ ~isDragging /\ ~panelDragging
         /\ panelTransform = None /\ overlayOpacity = None

\* C2 witness: under the default thresholds (100 px, 30% of 400 px) a slow
\* drag of 130 px has closed the sheet.
C2_Witness ==
  /\ TrackReleased /\ ~lastOp[4] /\ lastOp[3] = 130
  /\ closeThreshold = 100 /\ closeThresholdPercent = 30 /\ panelHeight = 400
  /\ ~isOpen

\* C3 -- a release whose final tracked displacement is <= 0 never closes the
\* sheet, whatever the thresholds and the measured velocity.
C3_NoCloseWithoutDisplacement ==
  (TrackReleased /\ lastOp[3] <= 0) => (isOpen /\ emitted = <<>>)

\* C3 witness: a track that came back to its press position with a velocity
\* above the threshold was released while closeThreshold was negative and
\* closeThresholdPercent was 0.
C3_Witness ==
  /\ TrackReleased /\ lastOp[3] = 0 /\ lastOp[4]
  /\ closeThreshold < 0 /\ closeThresholdPercent = 0
  /\ isOpen

\* C4 -- no-capture zones: while no track is active, a press on the content
\* area, the action row, the keypad or the close control starts none, and a
\* move or a release changes neither the track fields nor the sheet transform,
\* the backdrop opacity or the open flag; the press changes the open flag only
\* on the close control, which closes through its own handler.
C4_NoCaptureZones ==
  [][ ~isDragging =>
        /\ (lastOp'[1] = "press" /\ lastOp'[2] \in NoCaptureOrigins) =>
              /\ ~isDragging'
              /\ UNCHANGED <<startY, currentY, startTime, lastY, lastTime, velocity>>
              /\ IF lastOp'[2] = "closeBtn"
                 THEN ~isOpen' /\ emitted' = (IF isOpen THEN <<CloseEvent>> ELSE <<>>)
                 ELSE UNCHANGED <<isOpen, panelTransform, overlayOpacity>> /\ emitted' = <<>>
        /\ lastOp'[1] \in {"move", "release"} =>
              UNCHANGED <<isDragging, startY, currentY, startTime, lastY, lastTime,
                          velocity, panelTransform, overlayOpacity, isOpen>>
    ]_vars

\* C4 witness: the sheet is open and shown, and a press on the content area
\* has left the controller idle.
C4_Witness ==
  /\ lastOp[1] = "press" /\ lastOp[2] = "content"
  /\ isOpen /\ panelShow /\ ~isDragging

\* C5 -- single contact track: while a track is active, a further eligible
\* press leaves its start position, start time, last sample and velocity
\* unchanged.
C5_SecondPressIgnored ==
  [][ (isDragging /\ lastOp'[1] = "press" /\ lastOp'[2] \in EligibleOrigins) =>
        UNCHANGED <<startY, startTime, lastY, lastTime, velocity>>
    ]_vars

\* The variables of the program, without the record of the last step.
sheetVars ==
  <<trackVars, thresholdVars, otherConfigVars, methodVars, passwordVars,
    chromeVars, showVars, attrs, amountText>>

\* C6 -- open() while the sheet is open is a no-op: it changes nothing of the
\* sheet (open flag, scroll lock, list, mapping, selection, customized flag,
\* rendered rows, displayed amount, pending frame) and emits no event, also
\* when an amount is passed.
C6_OpenWhileOpenIsNoOp ==
  [][ (lastOp'[1] = "open" /\ isOpen) =>
        (UNCHANGED sheetVars /\ emitted' = <<>>) ]_vars

\* C6 witness: open(9.996) was called on an open sheet that displays another
\* amount.
C6_Witness ==
  /\ lastOp[1] = "open" /\ lastOp[2] = Some(9996) /\ ~lastOp[3]
  /\ isOpen /\ amountText # 1000

PaymentCloseCount(events) ==
  Cardinality({ i \in DOMAIN events : events[i].type = "payment-close" })

\* C7 -- every step dispatches payment-close once if it takes the sheet from
\* open to closed and not at all otherwise, whatever the operation.
C7_CloseEventPerTransition ==
  [][ PaymentCloseCount(emitted') = (IF isOpen /\ ~isOpen' THEN 1 ELSE 0) ]_vars

\* C7 witness: a drag release has closed the sheet and dispatched payment-close.
C7_Witness ==
  /\ TrackReleased /\ ~isOpen
  /\ PaymentCloseCount(emitted) = 1

DefaultRows ==
  RenderPaymentMethods([ paymentMethods |-> DEFAULT_PAYMENT_METHODS,
                         fieldMapping |-> DEFAULT_FIELD_MAPPING,
                         selectedMethod |-> DEFAULT_PAYMENT_METHODS[1],
                         renderedRows |-> <<>> ]).renderedRows

\* C8 -- an open() of a closed sheet leaves the customized flag false; if the
\* flag was false the list, the mapping and the rows become the built-in
\* defaults and the selection the first default entry; if it was true the
\* custom list, mapping, rows and selection are kept.
C8_CustomMethodsOneShot ==
  [][ (lastOp'[1] = "open" /\ ~isOpen) =>
        /\ isOpen' /\ ~hasCustomPaymentMethods'
        /\ IF ~hasCustomPaymentMethods
           THEN /\ paymentMethods' = DEFAULT_PAYMENT_METHODS
                /\ fieldMapping' = DEFAULT_FIELD_MAPPING
                /\ selectedMethod' = DEFAULT_PAYMENT_METHODS[1]
                /\ renderedRows' = DefaultRows
           ELSE UNCHANGED <<paymentMethods, fieldMapping, selectedMethod, renderedRows>>
    ]_vars

\* C8 witness: an open() of a closed sheet has kept a custom list and cleared
\* the flag.
C8_Witness ==
  /\ lastOp[1] = "open" /\ lastOp[3]
  /\ isOpen /\ ~hasCustomPaymentMethods
  /\ paymentMethods = <<"m1", "m2">>

\* C9 -- after setPaymentMethods(methods, mapping): with methods omitted or
\* empty the list and the mapping are the built-in defaults and the customized
\* flag is false; otherwise the given list and the given (or default) mapping
\* are active and the flag is true; in both cases getSelectedMethod() returns
\* the first element of the active list.
C9_SetPaymentMethods ==
  lastOp[1] = "setPaymentMethods" =>
    /\ IF lastOp[2] = None \/ lastOp[2] = Some(<<>>)
       THEN /\ paymentMethods = DEFAULT_PAYMENT_METHODS
            /\ fieldMapping = DEFAULT_FIELD_MAPPING
            /\ ~hasCustomPaymentMethods
       ELSE /\ paymentMethods = lastOp[2][1]
            /\ fieldMapping = (IF lastOp[3] = None THEN DEFAULT_FIELD_MAPPING
                                ELSE lastOp[3][1])
            /\ hasCustomPaymentMethods
    /\ GetSelectedMethod(Cur) = paymentMethods[1]

\* C9 witness: a list was installed while its second entry was the selection;
\* the selection is now its first entry (the rows still mark the second).
C9_Witness ==
  /\ lastOp[1] = "setPaymentMethods" /\ lastOp[2] = Some(<<"m3", "alipay">>)
  /\ selectedMethod = "m3"
  /\ renderedRows[2].selected

\* C10 -- password auto-submit, with password mode enabled and the sheet open:
\* the buffer is always shorter than the effective length N; a digit press
\* that brings it to N dispatches payment-confirm once, carrying the N digits
\* of the buffer followed by the pressed one, then payment-close, and leaves
\* the buffer empty and the sheet closed; any other digit press appends the
\* digit and a delete press removes the last one, dispatching nothing.
C10_PasswordAutoSubmit ==
  /\ [](Len(currentPassword) < passwordLength)
  /\ [][ (enablePassword /\ isOpen) =>
            /\ lastOp'[1] = "numberKey" =>
                  IF Len(currentPassword) + 1 = passwordLength
                  THEN /\ Len(emitted') = 2
                       /\ emitted'[1].type = "payment-confirm"
                       /\ emitted'[1].detail[1].password = Append(currentPassword, lastOp'[2])
                       /\ Len(emitted'[1].detail[1].password) = passwordLength
                       /\ emitted'[2] = CloseEvent
                       /\ currentPassword' = <<>>
                       /\ ~isOpen'
                  ELSE /\ currentPassword' = Append(currentPassword, lastOp'[2])
                       /\ emitted' = <<>>
                       /\ isOpen'
            /\ lastOp'[1] = "deleteKey" =>
                  /\ currentPassword' = SubSeq(currentPassword, 1, Len(currentPassword) - 1)
                  /\ emitted' = <<>>
                  /\ isOpen'
      ]_vars

\* C10 witness: with a length of 5, a digit press has submitted a password
\* mixing both keys and closed the sheet.
C10_Witness ==
  /\ lastOp[1] = "numberKey"
  /\ passwordLength = 5
  /\ Len(emitted) = 2
  /\ emitted[1].type = "payment-confirm"
  /\ emitted[1].detail[1].password = <<1, 2, 2, 1, 2>>
  /\ emitted[2] = CloseEvent
  /\ currentPassword = <<>> /\ ~isOpen

\* C11 -- password buffer length invariant: in every state reachable by digit
\* and delete presses, setPasswordLength, setEnablePassword, setConfig,
\* resetConfig, open and close, the buffer holds at most passwordLength digits.
C11_BufferWithinLength == Len(currentPassword) <= passwordLength

\* C12 -- closing clears the buffer: after every step that takes the sheet
\* from open to closed the password buffer is empty.
C12_CloseClearsBuffer ==
  [][ (isOpen /\ ~isOpen') => currentPassword' = <<>> ]_vars

\* C13 -- changing the password length clears the buffer: after every step
\* that leaves passwordLength different from what it was, the buffer is empty.
C13_LengthChangeClearsBuffer ==
  [][ passwordLength' # passwordLength => currentPassword' = <<>> ]_vars

\* C14 -- password mode presentation: the pad is shown and the action row
\* hidden if and only if enablePassword is true, and while enablePassword is
\* false the buffer is empty.
C14_PasswordPresentation ==
  /\ passwordSectionShown <=> enablePassword
  /\ actionsShown <=> ~enablePassword
  /\ ~enablePassword => (currentPassword = <<>> /\ passwordDots.filled = 0)

\* C14 witness: setConfig was applied with enablePassword true while digits
\* were in the buffer; the pad is shown and the action row hidden.
C14_Witness ==
  /\ lastOp[1] = "setConfig" /\ lastOp[2]["enablePassword"] = Some(TRUE)
  /\ Len(currentPassword) > 0
  /\ enablePassword /\ passwordSectionShown /\ ~actionsShown

\* The payment-confirm events of the last step.
ConfirmEvents == { i \in DOMAIN emitted : emitted[i].type = "payment-confirm" }

\* The identity of a record under the active mapping: its mapped value
\* field, or failing that the first of value, id, code it defines.
IdentityValue(m) ==
  GetField(MethodRecord(m), MappedField(fieldMapping, "valueField", "value"),
           <<"value", "id", "code">>)

\* C15 -- in every payment-confirm payload methodData is the selected record
\* and method is that record's identity value under the active field mapping,
\* never the record itself.
C15_ConfirmMethodIsIdentity ==
  \A i \in ConfirmEvents :
    LET d == emitted[i].detail[1]
    IN  /\ d.methodData = GetSelectedMethod(Cur)
        /\ d.method = IdentityValue(GetSelectedMethod(Cur))
        /\ d.method[1] # "ref"

\* C16 -- a payment-confirm payload carries a password exactly when the pad
\* produced it, and then the password has passwordLength characters; the
\* confirm button's payload carries none.
C16_PasswordOnlyFromPad ==
  \A i \in ConfirmEvents :
    LET d == emitted[i].detail[1]
    IN  /\ lastOp[1] \in {"numberKey", "confirmClick"}
        /\ ("password" \in DOMAIN d) <=> (lastOp[1] = "numberKey")
        /\ lastOp[1] = "numberKey" => Len(d.password) = passwordLength

\* C16 witness: completing a 4-digit pad has dispatched a confirmation that
\* carries a 4-character password.
C16_Witness ==
  /\ lastOp[1] = "numberKey"
  /\ passwordLength = 4
  /\ ConfirmEvents = {1}
  /\ emitted[1].detail[1].password = <<1, 1, 1, 1>>

\* The documented default of every option (percent and velocity in hundredths).
DocumentedDefaults ==
  [ allowSwipeToClose |-> TRUE, closeThreshold |-> 100,
    closeThresholdPercent |-> 30, velocityThreshold |-> 50,
    closeOnOverlayClick |-> TRUE, enablePassword |-> FALSE,
    passwordLength |-> 6, headerTitle |-> "pay" ]

\* The value a supplied option is to take: as given, but a percentage within
\* 0..1 and a password length within 4..12.
Adopted(key, v) ==
  IF key = "closeThresholdPercent" THEN Min(100, Max(0, v))
  ELSE IF key = "passwordLength" THEN Min(12, Max(4, v))
  ELSE v

\* C17 -- default restoration: after setConfig(partial) every option that
\* partial does not supply has its documented default, whatever was set before.
C17_DefaultRestoration ==
  lastOp[1] = "setConfig" =>
    \A k \in ConfigKeys : lastOp[2][k] = None => Cur[k] = DocumentedDefaults[k]

\* C17 witness: setConfig({closeThreshold: 50}) has returned with the
\* threshold at 50 and every option it did not name at its default.
C17_Witness ==
  /\ lastOp[1] = "setConfig"
  /\ lastOp[2] = [EmptyConfig EXCEPT !["closeThreshold"] = Some(50)]
  /\ closeThreshold = 50
  /\ \A k \in ConfigKeys \ {"closeThreshold"} : Cur[k] = DocumentedDefaults[k]
  /\ headerText = "pay" /\ overlayClickBound /\ ~passwordSectionShown

\* C18 -- adoption of supplied values: after setConfig(partial) every option
\* that partial supplies has the supplied value, clamped only for
\* closeThresholdPercent and passwordLength.
C18_SuppliedValuesAdopted ==
  lastOp[1] = "setConfig" =>
    \A k \in ConfigKeys :
      lastOp[2][k] # None => Cur[k] = Adopted(k, lastOp[2][k][1])

\* C19 -- password-length clamping: passwordLength is always within 4..12, and
\* after setPasswordLength(n) or setConfig({passwordLength: n}) it is
\* min(12, max(4, n)).
C19_PasswordLengthClamped ==
  /\ passwordLength \in 4..12
  /\ lastOp[1] = "setPasswordLength" => passwordLength = Min(12, Max(4, lastOp[2]))
  /\ (lastOp[1] = "setConfig" /\ lastOp[2]["passwordLength"] # None) =>
        passwordLength = Min(12, Max(4, lastOp[2]["passwordLength"][1]))

\* C19 witness: setPasswordLength(99) has left a length of 12.
C19_Witness ==
  /\ lastOp[1] = "setPasswordLength" /\ lastOp[2] = 99
  /\ passwordLength = 12 /\ passwordDots.total = 12

\* C20 -- percent clamping: after setCloseThresholdPercent(p) or
\* setConfig({closeThresholdPercent: p}) the closeThresholdPercent the close
\* decision reads is min(1, max(0, p)).
C20_PercentClamped ==
  /\ lastOp[1] = "setCloseThresholdPercent" =>
        closeThresholdPercent = Min(100, Max(0, lastOp[2]))
  /\ (lastOp[1] = "setConfig" /\ lastOp[2]["closeThresholdPercent"] # None) =>
        closeThresholdPercent = Min(100, Max(0, lastOp[2]["closeThresholdPercent"][1]))

\* C21 -- resetConfig() leaves the state that setConfig({}) followed by
\* setPaymentMethods() leaves: every option at its documented default, the
\* built-in list and mapping active, the first default entry selected, the
\* customized flag false and the buffer empty; the open flag and the displayed
\* amount are unchanged.
C21_ResetConfig ==
  [][ lastOp'[1] = "resetConfig" =>
        /\ [Cur EXCEPT !.emitted = <<>>]'
             = SetPaymentMethods(SetConfig(Begin, EmptyConfig), None, None)
        /\ \A k \in ConfigKeys : Cur'[k] = DocumentedDefaults[k]
        /\ paymentMethods' = DEFAULT_PAYMENT_METHODS
        /\ fieldMapping' = DEFAULT_FIELD_MAPPING
        /\ selectedMethod' = DEFAULT_PAYMENT_METHODS[1]
        /\ ~hasCustomPaymentMethods'
        /\ currentPassword' = <<>>
        /\ UNCHANGED <<isOpen, amountText>>
    ]_vars

\* C21 witness: resetConfig() has returned on an open sheet that displays
\* 12.34, with the defaults in place.
C21_Witness ==
  /\ lastOp[1] = "resetConfig"
  /\ isOpen /\ amountText = 1234
  /\ paymentMethods = DEFAULT_PAYMENT_METHODS /\ ~enablePassword
  /\ passwordLength = 6 /\ allowSwipeToClose

\* C22: the backdrop's click-to-close listener is re-bound, not stacked.  After
\* any sequence of setConfig, resetConfig and setCloseOnOverlayClick, a click
\* on the backdrop of an open sheet closes the sheet exactly when the current
\* closeOnOverlayClick is true, and then dispatches exactly one payment-close;
\* when it is false the click changes nothing and dispatches nothing.
C22_OverlayClickRebound ==
  [][ (lastOp'[1] = "overlayClick" /\ isOpen) =>
        IF closeOnOverlayClick
        THEN /\ ~isOpen' /\ ~overlayShow' /\ ~panelShow'
             /\ emitted' = <<CloseEvent>>
        ELSE Cur' = Begin
    ]_vars

\* A backdrop click has closed the sheet after a call set click-to-close.
C22_Witness ==
  /\ lastOp[1] = "overlayClick"
  /\ ~isOpen /\ closeOnOverlayClick
  /\ emitted = <<CloseEvent>>
  /\ attrs["close-on-overlay-click"] = Some(TRUE)

C23_PressNotCaptured ==
  [][ /\ (lastOp'[1] = "press" /\ ~isDragging /\ (~allowSwipeToClose \/ ~isOpen))
         => ~isDragging'
      /\ lastOp'[1] \in {"setConfig", "resetConfig"}
         => (dragHandleHidden' <=> ~allowSwipeToClose')
    ]_vars

\* How many times handler is in the listener list of event, how many events
\* of a type the last step dispatched, and how many times it called handler
\* for that type.
Registrations(event, handler) ==
  Cardinality({ i \in 1..Len(listeners[event]) : listeners[event][i] = handler })
Emissions(event) ==
  Cardinality({ i \in 1..Len(emitted) : emitted[i].type = event })
Invocations(event, handler) ==
  Cardinality({ i \in 1..Len(invoked) : invoked[i] = <<handler, event>> })

\* C24: event subscription is idempotent.  A successful on(event, h) leaves h
\* registered exactly once for event, whether or not it was registered
\* before; a successful off(event, h) leaves it unregistered; no other step
\* changes whether h is registered for event; and every step calls h once for
\* each event it dispatches when h is registered for the event's type, and
\* not at all otherwise.
C24_SubscriptionIdempotent ==
  [][ \A event \in EventNames, handler \in Handlers :
           /\ IF /\ lastOp'[1] \in {"on", "off"} /\ ~thrown'
                 /\ lastOp'[2] = event /\ lastOp'[3] = handler
              THEN Registrations(event, handler)'
                     = IF lastOp'[1] = "on" THEN 1 ELSE 0
              ELSE Registrations(event, handler)' = Registrations(event, handler)
           /\ Invocations(event, handler)'
                = Emissions(event)' * Registrations(event, handler)
           /\ Registrations(event, handler) \in {0, 1}
    ]_vars

\* A click on confirm dispatched payment-confirm and then payment-close; h1,
\* registered for both, was called once for each, and h2, registered for
\* payment-close only and before h1, was called once, before h1.
C24_Witness ==
  /\ lastOp[1] = "confirmClick"
  /\ Emissions("payment-confirm") = 1 /\ Emissions("payment-close") = 1
  /\ listeners["payment-close"] = <<"h2", "h1">>
  /\ listeners["payment-confirm"] = <<"h1">>
  /\ invoked = << <<"h1", "payment-confirm">>, <<"h2", "payment-close">>,
                  <<"h1", "payment-close">> >>

\* C27: a call through the global wrapper made before the document body
\* exists throws, creates no element and changes nothing; a call made once
\* the body exists succeeds; and across all calls (open, close, a setter, on,
\* off) the shared instance, once created, stays the same element, is the
\* only one created and is in the body exactly once.
C27_SharedInstance ==
  [][ /\ lastOp'[1] \in {"api", "on", "off"} =>
           IF ~bodyReady /\ globalInstance = None
           THEN Cur' = [Begin EXCEPT !.thrown = TRUE]
           ELSE ~thrown' /\ globalInstance' # None
      /\ globalInstance # None => globalInstance' = globalInstance
      /\ instancesCreated' <= 1
      /\ bodyChildren' = IF globalInstance' = None THEN <<>> ELSE globalInstance'
    ]_vars

\* on() has succeeded on the shared instance, the first element created,
\* which an earlier open() went to and which is the only child of the body.
C27_Witness ==
  /\ lastOp[1] = "on" /\ ~thrown
  /\ globalInstance = Some(1) /\ instancesCreated = 1 /\ bodyChildren = <<1>>
  /\ isOpen /\ panelShow

\* A call through the wrapper has failed: the body does not exist yet.
C27_Thrown ==
  /\ lastOp[1] = "api" /\ thrown
  /\ ~bodyReady /\ globalInstance = None /\ bodyChildren = <<>>

\* C25: page-scroll lock.  In every reachable state the body's overflow is
\* 'hidden' exactly when the sheet's open flag is set.
C25_ScrollLock == (bodyOverflow = "hidden") <=> isOpen

\* A swipe has closed the sheet and the page scrolls again.
C25_Witness ==
  /\ lastOp[1] = "release" /\ lastOp[2]
  /\ ~isOpen /\ bodyOverflow = ""
  /\ emitted = <<CloseEvent>>

\* The documented resolution of one displayed field of a record: the mapped
\* field if the record defines it, else the first fallback it defines, else
\* the literal default.
DocumentedField(item, field, fallbacks, dflt) ==
  IF field \in DOMAIN item THEN JsString(item[field])
  ELSE LET hits == { i \in 1..Len(fallbacks) : fallbacks[i] \in DOMAIN item }
       IN  IF hits = {} THEN dflt
           ELSE JsString(item[fallbacks[CHOOSE i \in hits : \A j \in hits : i <= j]])

\* C26: field resolution follows the documented order.  Every rendered row
\* shows, for identity, title, subtitle and icon, the mapped field of its
\* record if the record defines it, else the first fallback the record
\* defines (value, id, code; title, name, label; subtitle, desc, description;
\* icon, emoji), else the literal default (the row's index as a string, '',
\* '', the generic icon).
C26_FieldResolution ==
  \A i \in 1..Len(renderedRows) :
    LET item == MethodRecord(paymentMethods[i])
        fm == fieldMapping
    IN  /\ renderedRows[i].value
             = DocumentedField(item, MappedField(fm, "valueField", "value"),
                               <<"value", "id", "code">>, ToString(i - 1))
        /\ renderedRows[i].title
             = DocumentedField(item, MappedField(fm, "titleField", "title"),
                               <<"title", "name", "label">>, "")
        /\ renderedRows[i].subtitle
             = DocumentedField(item, MappedField(fm, "subtitleField", "subtitle"),
                               <<"subtitle", "desc", "description">>, "")
        /\ renderedRows[i].icon
             = DocumentedField(item, MappedField(fm, "iconField", "icon"),
                               <<"icon", "emoji">>, "glyph")

\* The example of C26: the record {id: 7, name: "X"}, rendered without a
\* mapping of the caller, shows identity 7, title "X" and an empty subtitle.
C26_Example ==
  \A i \in 1..Len(renderedRows) :
    (paymentMethods[i] = "m1" /\ fieldMapping = DEFAULT_FIELD_MAPPING)
      => /\ renderedRows[i].value = "7"
         /\ renderedRows[i].title = "X"
         /\ renderedRows[i].subtitle = ""

\* C28: a confirmation reports the current selection.  In every
\* payment-confirm payload, from the confirm button or from the pad,
\* methodData is the record getSelectedMethod() returns, and is never null.
C28_ConfirmReportsSelection ==
  \A i \in ConfirmEvents :
    /\ emitted[i].detail[1].methodData \notin {"null", "undefined"}
    /\ emitted[i].detail[1].methodData = GetSelectedMethod(Cur)

\* C29: deferred show against close.  Once every pending frame callback has
\* run, the sheet and the backdrop carry the class 'show' only if the open
\* flag is set; in particular open() followed by close() before the frame
\* leaves the sheet hidden.
C29_ShowOnlyWhenOpen ==
  ~framePending => ((panelShow \/ overlayShow) => isOpen)

\* C30: downward-only tracking.  A move sample changes the track (position,
\* last sample, velocity, transform, opacity) only if it lies at or below the
\* press position, so a sample above it changes nothing; and in every state
\* the translation applied to the sheet is at least 0 pixels and the opacity
\* override of the backdrop is max(0, 1 - translation / panelHeight), a value
\* within [0, 1], and is present exactly when a translation is.
C30_DownwardOnly ==
  [][ /\ lastOp'[1] = "move" =>
           \/ Cur' = Begin
           \/ /\ isDragging /\ currentY' >= startY
              /\ panelTransform' = Some(currentY' - startY)
      /\ (panelTransform' = None) <=> (overlayOpacity' = None)
      /\ panelTransform' # None =>
           /\ panelTransform'[1] >= 0
           /\ overlayOpacity'[1][1] * panelHeight'
                = Max(0, panelHeight' - panelTransform'[1]) * overlayOpacity'[1][2]
           /\ overlayOpacity'[1][1] >= 0 /\ overlayOpacity'[1][2] > 0
           /\ overlayOpacity'[1][1] <= overlayOpacity'[1][2]
    ]_vars

\* A track that began at 120 and went down to 450 has been given a sample
\* above the press position, which the direction recorded for the sample and
\* the unchanged translation of 330 pixels show.
C30_Witness ==
  /\ lastOp[1] = "move" /\ lastOp[2] = -1
  /\ isDragging /\ startY = 120 /\ currentY = 450 /\ lastY = 450
  /\ panelTransform = Some(330)
  /\ overlayOpacity = Some(<<70, 400>>)

\* The sheet has been dragged further than it is high: the opacity is 0.
C30_Clamped ==
  /\ lastOp[1] = "move"
  /\ panelTransform = Some(450) /\ panelHeight = 400
  /\ overlayOpacity = Some(<<0, 400>>)

\* A move step whose sample the tracker accepted: a track was active and the
\* sample lay at or below the press position.
MoveAccepted ==
  /\ lastOp'[1] = "move" /\ isDragging
  /\ (lastOp'[2] \in {0, 1} \/ currentY' # currentY)

\* C31: velocity estimate.  After every move sample accepted while Dragging
\* the stored velocity is |currentY - lastSampleY| / max(1, currentTime -
\* lastSampleTime), computed from the previous sample, also when the two
\* samples carry the same millisecond, and the last sample's position and
\* time are those of the current sample.
C31_VelocityEstimate ==
  [][ MoveAccepted =>
        /\ velocity'[1] * Max(1, now' - lastTime) = Abs(currentY' - lastY) * velocity'[2]
        /\ lastY' = currentY'
        /\ lastTime' = now'
    ]_vars

\* The part of C31 for samples that come at least a millisecond after the
\* previous one.
C31_VelocityAfterTick ==
  [][ (MoveAccepted /\ now' - lastTime > 0) =>
        /\ velocity'[1] * (now' - lastTime) = Abs(currentY' - lastY) * velocity'[2]
        /\ lastY' = currentY'
        /\ lastTime' = now'
    ]_vars

\* C32: no close after returning above the press point.  If the move sample
\* just before the release of a track lies above the press position, the
\* release does not close the sheet and dispatches nothing, even if an earlier
\* sample of the gesture lay beyond the distance threshold.
C32_NoCloseAbovePress ==
  [][ ( /\ lastOp[1] = "move" /\ lastOp[3]
        /\ isDragging
        /\ lastOp'[1] = "release" )
      => (isOpen' /\ emitted' = <<>>)
    ]_vars

\* C33: gesture and lifecycle.  In every reachable state a track is active
\* only while the sheet is open, the panel carries the 'dragging' mark only
\* while a track is active, and while no track is active the panel has no
\* inline transform and the backdrop no inline opacity.
C33_GestureLifecycle ==
  /\ isDragging => isOpen
  /\ panelDragging => isDragging
  /\ ~isDragging => (panelTransform = None /\ overlayOpacity = None)

\* A track that had moved the sheet by 20 pixels was released and the sheet
\* has snapped back.
C33_Witness ==
  /\ TrackReleased /\ lastOp[3] = 20
  /\ isOpen /\ ~isDragging /\ ~panelDragging
  /\ panelTransform = None /\ overlayOpacity = None

\* What C34 asks of a step that dispatched payment-confirm: the step
\* dispatched exactly payment-confirm and then payment-close and left the
\* sheet closed and not displayed, and a payload that carries a password
\* carries a complete one while the buffer is empty at the end of the step.
ConfirmThenClose(s) ==
  /\ Len(s.emitted) = 2
  /\ s.emitted[1].type = "payment-confirm"
  /\ s.emitted[2] = CloseEvent
  /\ ~s.isOpen /\ ~s.panelShow /\ ~s.overlayShow
  /\ "password" \in DOMAIN s.emitted[1].detail[1]
       => /\ Len(s.emitted[1].detail[1].password) = s.passwordLength
          /\ s.currentPassword = <<>>

\* C34: confirm-then-close ordering.  Every step on a displayed sheet that
\* dispatches payment-confirm dispatches exactly one payment-close after it,
\* in the same step, and leaves the sheet closed; for a confirmation by
\* password the payload carries the complete buffer and the buffer is empty
\* once payment-close has been dispatched.
C34_ConfirmThenClose ==
  [][ (panelShow /\ \E i \in DOMAIN emitted' : emitted'[i].type = "payment-confirm")
        => ConfirmThenClose(Cur')
    ]_vars

\* The same for confirmations made while the open flag is set.
C34_ConfirmWhileOpen ==
  [][ (isOpen /\ \E i \in DOMAIN emitted' : emitted'[i].type = "payment-confirm")
        => ConfirmThenClose(Cur')
    ]_vars

\* The rows of the rendered list that carry the 'selected' class.
SelectedRows == { i \in 1..Len(renderedRows) : renderedRows[i].selected }

\* C35: registry invariant.  In every reachable state the active method list
\* is not empty, getSelectedMethod() is not null and is an element of the
\* active list, and exactly one row of the rendered list is marked selected,
\* the row of the record getSelectedMethod() returns.
C35_RegistryInvariant ==
  /\ Len(paymentMethods) > 0
  /\ GetSelectedMethod(Cur) # "null"
  /\ \E i \in 1..Len(paymentMethods) : paymentMethods[i] = GetSelectedMethod(Cur)
  /\ Cardinality(SelectedRows) = 1
  /\ \A i \in SelectedRows :
       i <= Len(paymentMethods) /\ paymentMethods[i] = GetSelectedMethod(Cur)

\* The part of C35 about the list and the selection held by the element.
C35_SelectionInList ==
  /\ Len(paymentMethods) > 0
  /\ GetSelectedMethod(Cur) # "null"
  /\ \E i \in 1..Len(paymentMethods) : paymentMethods[i] = GetSelectedMethod(Cur)
  /\ Len(renderedRows) = Len(paymentMethods)
  /\ Cardinality(SelectedRows) <= 1

\* C36: amount tracking.  setAmount(a) displays a to two decimals whether the
\* sheet is open or not, and so does an open(a) that finds the sheet closed;
\* every other step -- open() without an amount, open(a) on an open sheet,
\* close(), configuration and method calls, clicks -- leaves the displayed
\* amount as it was; and the amount of every payment-confirm payload is the
\* amount displayed when the confirmation was made.
C36_AmountTracking ==
  [][ /\ IF lastOp'[1] = "setAmount"
         THEN amountText' = ToFixed2(lastOp'[2])
         ELSE IF lastOp'[1] = "open" /\ lastOp'[2] # None /\ lastOp'[3]
         THEN amountText' = ToFixed2(lastOp'[2][1])
         ELSE amountText' = amountText
      /\ \A i \in DOMAIN emitted' :
           emitted'[i].type = "payment-confirm"
             => emitted'[i].detail[1].amount = amountText
    ]_vars

\* A closed sheet that displayed 12.34 has been opened without an amount and
\* still displays 12.34.
C36_Witness ==
  /\ lastOp[1] = "open" /\ lastOp[2] = None /\ lastOp[3]
  /\ isOpen /\ amountText = 1234

\* C37: configuration calls are idempotent.  In the state a setConfig(c)
\* leaves, a second setConfig(c) leaves every effective option value as it
\* is; likewise a second setCloseThreshold, setCloseThresholdPercent,
\* setVelocityThreshold or setPasswordLength with the argument of the first.
C37_ConfigIdempotent ==
  /\ lastOp[1] = "setConfig" =>
       \A k \in ConfigKeys : SetConfig(Begin, lastOp[2])[k] = Cur[k]
  /\ lastOp[1] = "setCloseThreshold" =>
       SetCloseThreshold(Begin, lastOp[2]).closeThreshold = closeThreshold
  /\ lastOp[1] = "setCloseThresholdPercent" =>
       SetCloseThresholdPercent(Begin, lastOp[2]).closeThresholdPercent
         = closeThresholdPercent
  /\ lastOp[1] = "setVelocityThreshold" =>
       SetVelocityThreshold(Begin, lastOp[2]).velocityThreshold = velocityThreshold
  /\ lastOp[1] = "setPasswordLength" =>
       SetPasswordLength(Begin, lastOp[2]).passwordLength = passwordLength

\* The same for calls none of whose numeric arguments is, or is clamped to, 0.
C37_IdempotentNonZero ==
  /\ ( /\ lastOp[1] = "setConfig"
       /\ \A k \in {"closeThreshold", "closeThresholdPercent", "velocityThreshold"} :
            lastOp[2][k] = None \/ lastOp[2][k][1] > 0 )
     => \A k \in ConfigKeys : SetConfig(Begin, lastOp[2])[k] = Cur[k]
  /\ (lastOp[1] = "setCloseThreshold" /\ lastOp[2] # 0) =>
       SetCloseThreshold(Begin, lastOp[2]).closeThreshold = closeThreshold
  /\ (lastOp[1] = "setCloseThresholdPercent" /\ lastOp[2] > 0) =>
       SetCloseThresholdPercent(Begin, lastOp[2]).closeThresholdPercent
         = closeThresholdPercent
  /\ (lastOp[1] = "setVelocityThreshold" /\ lastOp[2] # 0) =>
       SetVelocityThreshold(Begin, lastOp[2]).velocityThreshold = velocityThreshold
  /\ lastOp[1] = "setPasswordLength" =>
       SetPasswordLength(Begin, lastOp[2]).passwordLength = passwordLength

\* C38: a drag resolves only by release or by close.  An active track ends
\* only in a release step or in a step that closes the sheet; a step that
\* closes the sheet (close(), the close control, a button, the overlay or a
\* completed password) ends the track and clears the transform; and while no
\* track is active a move or a release changes neither the transform, the
\* opacity, the open flag or the tracking flag, and dispatches nothing, so
\* that no second payment-close follows.
C38_DragResolves ==
  [][ /\ (isDragging /\ ~isDragging') => (lastOp'[1] = "release" \/ (isOpen /\ ~isOpen'))
      /\ (isDragging /\ lastOp'[1] = "move") => isDragging'
      /\ (isOpen /\ ~isOpen') =>
           /\ ~isDragging' /\ ~panelDragging'
           /\ panelTransform' = None /\ overlayOpacity' = None
           /\ emitted'[Len(emitted')] = CloseEvent
      /\ (~isDragging /\ lastOp'[1] \in {"move", "release"}) =>
           /\ UNCHANGED <<isDragging, isOpen, panelTransform, overlayOpacity>>
           /\ emitted' = <<>>
    ]_vars

\* A track that had reached 130 pixels was ended by a close; the release of
\* that gesture came afterwards, found no track and did nothing.
C38_Witness ==
  /\ lastOp[1] = "release" /\ ~lastOp[2]
  /\ currentY = 130 /\ startY = 0
  /\ ~isDragging /\ ~isOpen
  /\ panelTransform = None /\ emitted = <<>>

\* The track state of s, and s as a freshly connected panel holds it: with
\* one set of gesture listeners.
TrackState(s) ==
  <<s.isDragging, s.startY, s.currentY, s.startTime, s.lastY, s.lastTime,
    s.velocity, s.panelDragging, s.panelTransform, s.overlayOpacity, s.isOpen>>
FreshlyConnected(s) == [s EXCEPT !.dragListeners = 1]

\* C39: gesture listeners are re-bound, not stacked.  Whatever number of
\* setConfig and resetConfig calls with swipe enabled came before, every
\* press, move and release leaves the track state, the velocity estimate
\* included, that the same event leaves on a freshly connected panel in the
\* same state, whose handlers process the event once.
C39_ListenersRebound ==
  [][ /\ lastOp'[1] = "press" =>
           \E y \in ListenerYs :
             TrackState(Cur') = TrackState(PressEvent(FreshlyConnected(Begin),
                                                      lastOp'[2], y, now, 0))
      /\ lastOp'[1] = "move" =>
           \E y \in ListenerYs :
             TrackState(Cur') = TrackState(MoveEvent(FreshlyConnected(Begin), y, now, 0))
      /\ lastOp'[1] = "release" =>
           TrackState(Cur') = TrackState(ReleaseEvent(FreshlyConnected(Begin)))
    ]_vars

\* The number of listener sets on the gesture targets.
C39_OneListenerSet == dragListeners = 1

====
